---- MODULE Spec2Model ----
(***************************************************************************)
(* Model of the thumbnail service (GenerateThumbnail/__init__.py, main)    *)
(* and of the Streamlit client (Frontend-Streamlit/app.py).                *)
(*                                                                         *)
(*   Spec       the service: up to MaxInv invocations of main, interleaved *)
(*              at the two blob uploads, against one blob store.           *)
(*   SpecThumb  the size computed by image.thumbnail((128, 128)).          *)
(*   SpecUI     the client script's run after a button press.              *)
(***************************************************************************)
EXTENDS Integers, Sequences, FiniteSets, TLC

VARIABLES
    \* ---- service ----
    pc,        \* pc[i]: where invocation i of main stands
    req,       \* req[i]: the HTTP request invocation i received
    opened,    \* opened[i]: Image.open was called (line 47)
    thumb,     \* thumb[i]: the encoded thumbnail (thumb_buffer), or NoThumb
    token,     \* token[i]: the value uuid.uuid4() returned, 0 before
    writes,    \* writes[i]: the containers invocation i uploaded to, in order
    failedAt,  \* failedAt[i]: the step whose exception ended the invocation
    resp,      \* resp[i]: the HttpResponse returned, or NoResp
    store,     \* the blob store: a set of blobs
    issued,    \* the tokens uuid4 has returned so far
    replaced,  \* the blobs an upload replaced (overwrite=True on an existing name)
    \* ---- thumbnail size ----
    tpc, tw, th, tsize,
    \* ---- client ----
    upc, ufile, presses, posts, reply, shown, uncaught, attempt

svars == <<pc, req, opened, thumb, token, writes, failedAt, resp, store, issued, replaced>>
tvars == <<tpc, tw, th, tsize>>
uvars == <<upc, ufile, presses, posts, reply, shown, uncaught, attempt>>
vars == <<svars, tvars, uvars>>

-----------------------------------------------------------------------------
(* Bounds *)

\* Number of invocations of main (sequential or concurrent).
MaxInv == 2
\* Side lengths 1..MaxDim are all tried by SpecThumb.
MaxDim == 150
\* Button presses the client model follows.
MaxPress == 3

-----------------------------------------------------------------------------
(* image.thumbnail((128, 128)): Pillow's Image.thumbnail, called at line 51 *)

\* thumbnail_size = (128, 128)
ThumbSide == 128

Abs(n) == IF n < 0 THEN 0 - n ELSE n

Max2(a, b) == IF a >= b THEN a ELSE b

\* floor(a / b) and ceil(a / b) for a >= 0, b > 0
FloorDiv(a, b) == a \div b

CeilDiv(a, b) == (a + b - 1) \div b

\* Width when the height becomes ThumbSide (the branch x / y >= aspect):
\*   round_aspect(y * aspect, key = abs(aspect - n / y)), aspect = w / h.
\* The candidates are floor and ceil of ThumbSide*w/h; min(..., key) keeps the
\* first on a tie; the result is at least 1.  key(n) = |w/h - n/ThumbSide| is
\* compared through |ThumbSide*w - n*h|.
RoundWidth(w, h) ==
    LET lo == FloorDiv(ThumbSide * w, h)
        hi == CeilDiv(ThumbSide * w, h)
        klo == Abs(ThumbSide * w - lo * h)
        khi == Abs(ThumbSide * w - hi * h)
    IN  Max2(IF klo <= khi THEN lo ELSE hi, 1)

\* Height when the width becomes ThumbSide (the other branch):
\*   round_aspect(x / aspect, key = 0 if n == 0 else abs(aspect - x / n)).
\* key(n) = |w/h - ThumbSide/n| = |w*n - ThumbSide*h| / (h*n); two keys are
\* compared by cross-multiplication, and key(0) = 0.
RoundHeight(w, h) ==
    LET lo == FloorDiv(ThumbSide * h, w)
        hi == CeilDiv(ThumbSide * h, w)
        nlo == Abs(w * lo - ThumbSide * h)
        nhi == Abs(w * hi - ThumbSide * h)
        pickLo == IF lo = 0 THEN TRUE ELSE nlo * hi <= nhi * lo
    IN  Max2(IF pickLo THEN lo ELSE hi, 1)

\* Variant: image.resize((128, 128)) in place of image.thumbnail.
ThumbnailSize_Resize(w, h) == <<ThumbSide, ThumbSide>>

\* The size of the image after image.thumbnail((ThumbSide, ThumbSide)).
ThumbnailSize(w, h) ==
    IF ThumbSide >= w /\ ThumbSide >= h THEN <<w, h>>
    ELSE IF h >= w THEN <<RoundWidth(w, h), ThumbSide>>
    ELSE <<ThumbSide, RoundHeight(w, h)>>

-----------------------------------------------------------------------------
(* The service: main(req), GenerateThumbnail/__init__.py lines 28-109 *)

Inv == 1..MaxInv

\* uuid.uuid4() values.  A value is 122 random bits; the model takes two calls
\* never to return the same value (issued records the values handed out).
Tokens == 1..MaxInv

\* The fixed-length text of a uuid, one atom of a name.
UuidStr(t) == "uuid" \o ToString(t)

\* File names, as sequences of characters (multi-character atoms stand for
\* text without special characters).  <<>> is the empty file name.
Filenames == { <<>>, <<"a", ".png">>, <<"a", " ", "b", ".jpg">> }

\* Modes Pillow's JPEG encoder accepts (JpegImagePlugin RAWMODE); image.save
\* raises OSError "cannot write mode ... as JPEG" for any other mode.
JpegModes == {"1", "L", "RGB", "RGBX", "CMYK", "YCbCr"}

NotImage(k) == [kind |-> k, mode |-> "", w |-> 0, h |-> 0]

Img(m, w, h) == [kind |-> "image", mode |-> m, w |-> w, h |-> h]

\* Uploaded byte contents: "image" decodes; "truncated" has a valid header
\* (Image.open succeeds) but unreadable pixel data (image.thumbnail raises);
\* "garbage" and "empty" are not recognised by Image.open.
Contents ==
    { NotImage("garbage"), NotImage("empty"), NotImage("truncated"),
      Img("RGB", 1000, 500), Img("L", 90, 120), Img("RGBA", 300, 400) }

\* A request: files = "unreadable" when req.files raises, "absent" when the
\* form has no part named file, "present" otherwise.
NoPart == [files |-> "absent", filename |-> <<>>, content |-> NotImage("empty")]

BadForm == [files |-> "unreadable", filename |-> <<>>, content |-> NotImage("empty")]

Requests ==
    { NoPart, BadForm } \cup
    [files : {"present"}, filename : Filenames, content : Contents]

\* Variant: the test `file is None` in place of `not file`.
Truthy_AnyPart(r) == r.files = "present"

\* The truth value of req.files.get("file"): None is false, and an uploaded
\* part (werkzeug FileStorage) is true exactly when its file name is not empty.
Truthy(r) == r.files = "present" /\ r.filename # <<>>

NoReq == [files |-> "none", filename |-> <<>>, content |-> NotImage("empty")]

NoThumb == [format |-> "", mode |-> "", size |-> <<0, 0>>]

NoResp == [status |-> 0, body |-> <<"none">>]

\* Variant: the file name alone, without the uuid.
OriginalBlobName_NoToken(t, fname) == fname

\* original_blob_name = f"{uuid.uuid4()}_{file.filename}"
OriginalBlobName(t, fname) == <<UuidStr(t), "_">> \o fname

\* Variant: the tag appended instead of prefixed.
ThumbnailBlobName_Suffix(orig) == orig \o <<"_thumb">>

\* thumbnail_blob_name = f"thumb_{original_blob_name}"
ThumbnailBlobName(orig) == <<"thumb_">> \o orig

\* Variant: both uploads into the thumbnails container.
original_container_Same == "thumbnails"

original_container == "originalimages"

thumbnail_container == "thumbnails"

\* Percent-encoding of one character in a blob URL, and its inverse.
QuoteChar(c) == IF c = " " THEN "%20" ELSE IF c = "%" THEN "%25" ELSE c

UnquoteChar(c) == IF c = "%20" THEN " " ELSE IF c = "%25" THEN "%" ELSE c

Quote(name) == [k \in 1..Len(name) |-> QuoteChar(name[k])]

Unquote(path) == [k \in 1..Len(path) |-> UnquoteChar(path[k])]

\* blob_client.url: account / container / quoted blob name
BlobUrl(container, name) == [container |-> container, path |-> Quote(name)]

\* The object a URL names.
UrlObject(url) == Unquote(url.path)

\* func.HttpResponse(text, status_code=...)
TextResponse(text, code) == [status |-> code, body |-> <<text>>]

\* json.dumps({"original_url": ..., "thumbnail_url": ...}), status 200
JsonResponse(ourl, turl) ==
    [status |-> 200, body |-> <<"json", ourl, turl>>]

\* The blob (container, name) with its bytes, uploaded by invocation i.
Blob(container, name, data, i) ==
    [container |-> container, name |-> name, data |-> data, by |-> i]

Exists(s, container, name) ==
    \E b \in s : b.container = container /\ b.name = name

\* upload_blob(data, overwrite=True): an existing blob of that name is replaced.
Put(s, container, name, data, i) ==
    { b \in s : ~(b.container = container /\ b.name = name) }
        \cup { Blob(container, name, data, i) }

Names(s, container) == { b.name : b \in { x \in s : x.container = container } }

SInit ==
    /\ pc = [i \in Inv |-> "idle"]
    /\ req = [i \in Inv |-> NoReq]
    /\ opened = [i \in Inv |-> FALSE]
    /\ thumb = [i \in Inv |-> NoThumb]
    /\ token = [i \in Inv |-> 0]
    /\ writes = [i \in Inv |-> <<>>]
    /\ failedAt = [i \in Inv |-> "none"]
    /\ resp = [i \in Inv |-> NoResp]
    /\ store = {}
    /\ issued = {}
    /\ replaced = {}

\* The runtime calls main with a request.  Invocations are numbered in the
\* order they start; their steps interleave freely afterwards.
Receive(i) ==
    /\ pc[i] = "idle"
    /\ IF i = 1 THEN TRUE ELSE pc[i - 1] # "idle"
    /\ \E r \in Requests : req' = [req EXCEPT ![i] = r]
    /\ pc' = [pc EXCEPT ![i] = "lookup"]
    /\ UNCHANGED <<opened, thumb, token, writes, failedAt, resp, store, issued, replaced>>
    /\ UNCHANGED <<tvars, uvars>>

\* Variant: the handler puts the exception's text into the body.
Fail_LeakDetail(i, step, text) ==
    /\ failedAt' = [failedAt EXCEPT ![i] = step]
    /\ resp' = [resp EXCEPT ![i] = [status |-> 500, body |-> <<text, step>>]]
    /\ pc' = [pc EXCEPT ![i] = "done"]

\* An exception handler: return the given 500 response.
Fail(i, step, text) ==
    /\ failedAt' = [failedAt EXCEPT ![i] = step]
    /\ resp' = [resp EXCEPT ![i] = TextResponse(text, 500)]
    /\ pc' = [pc EXCEPT ![i] = "done"]

\* Step 1, lines 32-42.
Lookup(i) ==
    /\ pc[i] = "lookup"
    /\ IF req[i].files = "unreadable"
         THEN Fail(i, "lookup", "Error processing request")
         ELSE IF ~Truthy(req[i])
           THEN /\ resp' = [resp EXCEPT ![i] = TextResponse("No file uploaded", 400)]
                /\ pc' = [pc EXCEPT ![i] = "done"]
                /\ UNCHANGED failedAt
           ELSE /\ pc' = [pc EXCEPT ![i] = "process"]
                /\ UNCHANGED <<failedAt, resp>>
    /\ UNCHANGED <<req, opened, thumb, token, writes, store, issued, replaced>>
    /\ UNCHANGED <<tvars, uvars>>

\* image.save(thumb_buffer, format="JPEG") on an image of the given mode.
JpegSaveOk(mode) == mode \in JpegModes

\* Variant: an exception while making the thumbnail is swallowed and the
\* invocation goes on to the uploads.
Process_Swallow(i) ==
    LET c == req[i].content IN
    /\ pc[i] = "process"
    /\ opened' = [opened EXCEPT ![i] = TRUE]
    /\ thumb' = [thumb EXCEPT ![i] =
            IF c.kind = "image" /\ JpegSaveOk(c.mode)
              THEN [format |-> "JPEG", mode |-> c.mode, size |-> ThumbnailSize(c.w, c.h)]
              ELSE NoThumb]
    /\ pc' = [pc EXCEPT ![i] = "prepare"]
    /\ UNCHANGED <<failedAt, resp>>
    /\ UNCHANGED <<req, token, writes, store, issued, replaced>>
    /\ UNCHANGED <<tvars, uvars>>

\* Step 2, lines 46-56: read, Image.open, thumbnail, save as JPEG.
Process(i) ==
    LET c == req[i].content IN
    /\ pc[i] = "process"
    /\ \/ /\ Fail(i, "read", "Error processing image")
          /\ UNCHANGED <<opened, thumb>>
       \/ /\ opened' = [opened EXCEPT ![i] = TRUE]
          /\ IF c.kind \in {"garbage", "empty"}
               THEN Fail(i, "decode", "Error processing image") /\ UNCHANGED thumb
               ELSE IF c.kind = "truncated"
                 THEN Fail(i, "resize", "Error processing image") /\ UNCHANGED thumb
                 ELSE IF ~JpegSaveOk(c.mode)
                   THEN Fail(i, "encode", "Error processing image") /\ UNCHANGED thumb
                   ELSE /\ thumb' = [thumb EXCEPT ![i] =
                              [format |-> "JPEG", mode |-> c.mode,
                               size |-> ThumbnailSize(c.w, c.h)]]
                        /\ pc' = [pc EXCEPT ![i] = "prepare"]
                        /\ UNCHANGED <<failedAt, resp>>
    /\ UNCHANGED <<req, token, writes, store, issued, replaced>>
    /\ UNCHANGED <<tvars, uvars>>

\* uuid.uuid4(): a value not returned before.
Uuid4(t) == t \in Tokens \ issued

\* Steps 3 and 4, lines 59-72: the blob names, then the connection string
\* from the environment (os.environ[...] raises KeyError when it is not set,
\* from_connection_string raises on a malformed one).
Prepare(i) ==
    /\ pc[i] = "prepare"
    /\ \E t \in Tokens :
         /\ Uuid4(t)
         /\ token' = [token EXCEPT ![i] = t]
         /\ issued' = issued \cup {t}
    /\ \/ /\ pc' = [pc EXCEPT ![i] = "upOrig"]
          /\ UNCHANGED <<failedAt, resp>>
       \/ Fail(i, "config", "Error processing image")
    /\ UNCHANGED <<req, opened, thumb, writes, store, replaced>>
    /\ UNCHANGED <<tvars, uvars>>

original_blob_name(i) == OriginalBlobName(token[i], req[i].filename)

thumbnail_blob_name(i) == ThumbnailBlobName(original_blob_name(i))

\* One upload_blob(data, overwrite=True) that returns normally.
Upload(i, container, name, data) ==
    /\ store' = Put(store, container, name, data, i)
    /\ replaced' = IF Exists(store, container, name)
                     THEN replaced \cup { b \in store : b.container = container /\ b.name = name }
                     ELSE replaced
    /\ writes' = [writes EXCEPT ![i] = Append(@, container)]

\* Step 5, lines 75-81.
UploadOriginal(i) ==
    /\ pc[i] = "upOrig"
    /\ \/ /\ Upload(i, original_container, original_blob_name(i), req[i].content)
          /\ pc' = [pc EXCEPT ![i] = "upThumb"]
          /\ UNCHANGED <<failedAt, resp>>
       \/ /\ Fail(i, "upOrig", "Error processing image")
          /\ UNCHANGED <<store, replaced, writes>>
    /\ UNCHANGED <<req, opened, thumb, token, issued>>
    /\ UNCHANGED <<tvars, uvars>>

\* Variant: a failed thumbnail upload deletes the original again.
UploadThumbnail_Rollback(i) ==
    /\ pc[i] = "upThumb"
    /\ \/ /\ Upload(i, thumbnail_container, thumbnail_blob_name(i), thumb[i])
          /\ resp' = [resp EXCEPT ![i] =
                JsonResponse(BlobUrl(original_container, original_blob_name(i)),
                             BlobUrl(thumbnail_container, thumbnail_blob_name(i)))]
          /\ pc' = [pc EXCEPT ![i] = "done"]
          /\ UNCHANGED failedAt
       \/ /\ Fail(i, "upThumb", "Error processing image")
          /\ store' = { b \in store : ~(b.container = original_container
                                        /\ b.name = original_blob_name(i)) }
          /\ UNCHANGED <<replaced, writes>>
    /\ UNCHANGED <<req, opened, thumb, token, issued>>
    /\ UNCHANGED <<tvars, uvars>>

\* Steps 6 and 7, lines 84-102: upload the thumbnail, return the two URLs.
UploadThumbnail(i) ==
    /\ pc[i] = "upThumb"
    /\ \/ /\ Upload(i, thumbnail_container, thumbnail_blob_name(i), thumb[i])
          /\ resp' = [resp EXCEPT ![i] =
                JsonResponse(BlobUrl(original_container, original_blob_name(i)),
                             BlobUrl(thumbnail_container, thumbnail_blob_name(i)))]
          /\ pc' = [pc EXCEPT ![i] = "done"]
          /\ UNCHANGED failedAt
       \/ /\ Fail(i, "upThumb", "Error processing image")
          /\ UNCHANGED <<store, replaced, writes>>
    /\ UNCHANGED <<req, opened, thumb, token, issued>>
    /\ UNCHANGED <<tvars, uvars>>

SNext ==
    \E i \in Inv :
        \/ Receive(i)
        \/ Lookup(i)
        \/ Process(i)
        \/ Prepare(i)
        \/ UploadOriginal(i)
        \/ UploadThumbnail(i)

-----------------------------------------------------------------------------
(* The thumbnail size alone: image.thumbnail((128, 128)) on a w x h image *)

\* Side lengths tried: every length up to MaxDim, and some large ones.
Dims == (1..MaxDim) \cup {255, 256, 257, 500, 1000, 4000}

TIdle == tpc = "off" /\ tw = 0 /\ th = 0 /\ tsize = <<0, 0>>

TInit == tpc = "input" /\ tw \in Dims /\ th \in Dims /\ tsize = <<0, 0>>

\* Lines 50-51 on an image of size (tw, th).
ApplyThumbnail ==
    /\ tpc = "input"
    /\ tsize' = ThumbnailSize(tw, th)
    /\ tpc' = "done"
    /\ UNCHANGED <<tw, th>>
    /\ UNCHANGED <<svars, uvars>>

-----------------------------------------------------------------------------
(* The client: Frontend-Streamlit/app.py.  Streamlit runs the script from  *)
(* the top on every interaction; one run is followed step by step.         *)

\* Files the uploader hands over (the extension filter does not look at the
\* bytes, so a file need not decode).
UFiles == [name : {"a.png", "b.jpg"}, decodes : BOOLEAN]

NoFile == [name |-> "", decodes |-> FALSE]

NoReply == [status |-> 0, body |-> "none"]

\* What requests.post can return: a status and a body.
Replies ==
    [status : {200}, body : {"urls", "not_json", "json_without_urls"}]
        \cup [status : {400, 500, 404}, body : {"text"}]

\* How an attempt (one button press) went.
Failures == {"post_raised", "non200", "bad_body", "fetch_raised", "fetch_not_image"}

UIdle ==
    /\ upc = "off" /\ ufile = NoFile /\ presses = 0 /\ posts = 0
    /\ reply = NoReply /\ shown = {} /\ uncaught = FALSE /\ attempt = "none"

UInit ==
    /\ upc = "nofile" /\ ufile = NoFile /\ presses = 0 /\ posts = 0
    /\ reply = NoReply /\ shown = {} /\ uncaught = FALSE /\ attempt = "none"

\* The user picks a file (line 18); the script runs with button = False.
\* Lines 25-29: Image.open(uploaded_file) is outside any try, so a file
\* that does not decode ends this run with an uncaught exception and the
\* button (line 32) is not drawn.
SelectFile ==
    /\ upc \in {"nofile", "ready", "broken"}
    /\ \E f \in UFiles :
         /\ ufile' = f
         /\ IF f.decodes
              THEN upc' = "ready" /\ shown' = {"original"} /\ uncaught' = FALSE
              ELSE upc' = "broken" /\ shown' = {} /\ uncaught' = TRUE
    /\ reply' = NoReply
    /\ attempt' = "none"
    /\ UNCHANGED <<presses, posts>>
    /\ UNCHANGED <<svars, tvars>>

\* The user presses Generate Thumbnail (line 32); the script runs again,
\* shows the original (lines 25-29) and builds files (lines 35-41).
Press ==
    /\ upc = "ready"
    /\ presses < MaxPress
    /\ presses' = presses + 1
    /\ attempt' = "running"
    /\ IF ufile.decodes
         THEN upc' = "posting" /\ shown' = {"original", "spinner"} /\ uncaught' = FALSE
         ELSE upc' = "broken" /\ shown' = {} /\ uncaught' = TRUE
    /\ reply' = NoReply
    /\ UNCHANGED <<ufile, posts>>
    /\ UNCHANGED <<svars, tvars>>

\* Variant: the exception is not caught and ends the run.
Caught_Propagates(why) ==
    /\ shown' = shown \ {"spinner"}
    /\ upc' = "broken"
    /\ attempt' = why
    /\ uncaught' = TRUE

\* The except clause, lines 86-88: st.error; the run then ends normally.
Caught(why) ==
    /\ shown' = (shown \ {"spinner"}) \cup {"error"}
    /\ upc' = "ready"
    /\ attempt' = why
    /\ UNCHANGED uncaught

\* Line 45: requests.post returns a response or raises.
Post ==
    /\ upc = "posting"
    /\ posts' = posts + 1
    /\ \/ \E r \in Replies :
            /\ reply' = r
            /\ upc' = "responded"
            /\ UNCHANGED <<shown, uncaught, attempt>>
       \/ Caught("post_raised") /\ UNCHANGED reply
    /\ UNCHANGED <<ufile, presses>>
    /\ UNCHANGED <<svars, tvars>>

\* Lines 48-57 and 83-85: the status test, response.json(), the two keys.
HandleResponse ==
    /\ upc = "responded"
    /\ IF reply.status = 200
         THEN IF reply.body = "urls"
                THEN /\ shown' = shown \cup {"success"}
                     /\ upc' = "fetching"
                     /\ UNCHANGED <<uncaught, attempt>>
                ELSE Caught("bad_body")
         ELSE /\ shown' = (shown \ {"spinner"}) \cup {"error"}
              /\ upc' = "ready"
              /\ attempt' = "non200"
              /\ UNCHANGED uncaught
    /\ UNCHANGED <<ufile, presses, posts, reply>>
    /\ UNCHANGED <<svars, tvars>>

\* Lines 62-82: requests.get(thumbnail_url) returns image bytes, returns
\* something Image.open rejects, or raises; then the links are shown.
Fetch ==
    /\ upc = "fetching"
    /\ \/ /\ shown' = (shown \ {"spinner"}) \cup {"thumbnail", "links", "urls"}
          /\ upc' = "ready"
          /\ attempt' = "ok"
          /\ UNCHANGED uncaught
       \/ \E why \in {"fetch_raised", "fetch_not_image"} : Caught(why)
    /\ UNCHANGED <<ufile, presses, posts, reply>>
    /\ UNCHANGED <<svars, tvars>>

UNext == SelectFile \/ Press \/ Post \/ HandleResponse \/ Fetch

-----------------------------------------------------------------------------
(* Specifications *)

Init == SInit /\ TIdle /\ UIdle

Next == SNext

Spec == Init /\ [][Next]_vars

InitThumb == TInit /\ SInit /\ UIdle

NextThumb == ApplyThumbnail

SpecThumb == InitThumb /\ [][NextThumb]_vars

InitUI == UInit /\ SInit /\ TIdle

NextUI == UNext

SpecUI == InitUI /\ [][NextUI]_vars

-----------------------------------------------------------------------------
(* Properties *)

Done(i) == pc[i] = "done"

\* The request has no part named file, or one that counts as empty: the
\* part main's test `not file` rejects (its file name is empty).
MissingFile(r) == r.files = "absent" \/ (r.files = "present" /\ r.filename = <<>>)

\* The request carries a file part main accepts, whose bytes are an image.
Decodable(r) == r.files = "present" /\ r.filename # <<>> /\ r.content.kind = "image"

\* The request carries a file part main accepts, whose bytes are no image.
Undecodable(r) == r.files = "present" /\ r.filename # <<>> /\ r.content.kind # "image"

GenericMessages == { <<"No file uploaded">>, <<"Error processing request">>,
                     <<"Error processing image">> }

C2_OkMeansTwoWrites ==
    \A i \in Inv :
        resp[i].status = 200 =>
            /\ writes[i] = <<"originalimages", "thumbnails">>
            /\ Len(resp[i].body) = 3
            /\ resp[i].body[2].container = "originalimages"
            /\ resp[i].body[3].container = "thumbnails"
            /\ UrlObject(resp[i].body[3]) = <<"thumb_">> \o UrlObject(resp[i].body[2])
            /\ UrlObject(resp[i].body[2]) = original_blob_name(i)

C2_Witness ==
    \E i \in Inv :
        /\ resp[i].status = 200
        /\ req[i].filename = <<"a", " ", "b", ".jpg">>
        /\ resp[i].body[3].path # thumbnail_blob_name(i)

\* C3: a request whose file part is accepted but whose bytes are not an
\* image is answered 500 and its invocation uploads nothing.
C3_UndecodableIs500 ==
    \A i \in Inv :
        Undecodable(req[i]) =>
            /\ writes[i] = <<>>
            /\ \A b \in store : b.by # i
            /\ pc[i] \in {"lookup", "process", "done"}
            /\ Done(i) => resp[i] = TextResponse("Error processing image", 500)
            /\ Done(i) => failedAt[i] \in {"read", "decode", "resize"}

C3_Witness ==
    \E i \in Inv :
        /\ Done(i)
        /\ Undecodable(req[i])
        /\ req[i].content.kind = "garbage"
        /\ opened[i]

\* C4: a file whose bytes decode as an image, once read, never fails at the
\* decode, resize or JPEG encoding steps, whatever its format or colour mode:
\* its thumbnail is JPEG and, unless the configuration lookup or an upload
\* fails, the response is 200.
C4_EveryImageEncodes ==
    \A i \in Inv :
        (Done(i) /\ Decodable(req[i]) /\ failedAt[i] # "read") =>
            /\ failedAt[i] \in {"none", "config", "upOrig", "upThumb"}
            /\ thumb[i].format = "JPEG"
            /\ failedAt[i] = "none" => resp[i].status = 200

WithinOnePixel(got, side, longer) ==
    Abs(got * longer - ThumbSide * side) < longer

\* C5: the thumbnail of a w x h image fits in 128 x 128, is no larger than
\* the image in either direction, is the image's own size when that already
\* fits, has its longer side equal to 128 otherwise, and each side is within
\* one pixel of the exactly scaled side; 1000 x 500 gives 128 x 64.
C5_ThumbnailSize ==
    tpc = "done" =>
        LET w2 == tsize[1]
            h2 == tsize[2]
            longer == Max2(tw, th)
        IN  /\ w2 >= 1 /\ h2 >= 1
            /\ Max2(w2, h2) <= ThumbSide
            /\ w2 <= tw /\ h2 <= th
            /\ (tw <= ThumbSide /\ th <= ThumbSide) => tsize = <<tw, th>>
            /\ longer > ThumbSide =>
                 /\ Max2(w2, h2) = ThumbSide
                 /\ WithinOnePixel(w2, tw, longer)
                 /\ WithinOnePixel(h2, th, longer)
            /\ (tw = 1000 /\ th = 500) => tsize = <<128, 64>>

C5_Witness ==
    /\ tpc = "done"
    /\ tw = 1000 /\ th = 500
    /\ tsize = <<128, 64>>

Named(i) == token[i] # 0

\* C6: any two invocations that have generated their names have different
\* original names and different thumbnail names, also for the same file name;
\* no upload has replaced a blob, and every upload made is still in the store
\* as its invocation wrote it.
C6_NamesNeverCollide ==
    /\ \A i, j \in Inv :
         (i # j /\ Named(i) /\ Named(j)) =>
            /\ original_blob_name(i) # original_blob_name(j)
            /\ thumbnail_blob_name(i) # thumbnail_blob_name(j)
    /\ replaced = {}
    /\ \A i \in Inv :
         /\ Len(writes[i]) >= 1 =>
              Blob("originalimages", original_blob_name(i), req[i].content, i) \in store
         /\ Len(writes[i]) >= 2 =>
              Blob("thumbnails", thumbnail_blob_name(i), thumb[i], i) \in store

C6_Witness ==
    \E i, j \in Inv :
        /\ i # j
        /\ resp[i].status = 200 /\ resp[j].status = 200
        /\ req[i] = req[j]
        /\ Cardinality(store) = 4

\* C7: an invocation in which an upload failed is answered 500; when it was
\* the thumbnail upload, the original uploaded before is still in the
\* originals container, in this and every later state.
C7_NoRollback ==
    \A i \in Inv :
        /\ failedAt[i] \in {"upOrig", "upThumb"} =>
             resp[i] = TextResponse("Error processing image", 500)
        /\ failedAt[i] = "upOrig" => writes[i] = <<>>
        /\ failedAt[i] = "upThumb" =>
             /\ writes[i] = <<"originalimages">>
             /\ Blob("originalimages", original_blob_name(i), req[i].content, i) \in store
             /\ ~Exists(store, "thumbnails", thumbnail_blob_name(i))

C7_Witness ==
    \E i, j \in Inv :
        /\ i < j
        /\ failedAt[i] = "upThumb"
        /\ Done(j)
        /\ failedAt[j] = "upOrig"

\* C8: every blob in the thumbnails container is named "thumb_" + N for a
\* blob N of the originals container.
C8_ThumbnailHasOriginal ==
    \A b \in store :
        b.container = "thumbnails" =>
            /\ Len(b.name) >= 1
            /\ b.name[1] = "thumb_"
            /\ Exists(store, "originalimages", Tail(b.name))

C8_Witness ==
    \E i, j \in Inv :
        /\ i # j
        /\ resp[i].status = 200
        /\ failedAt[j] = "upThumb"
        /\ Cardinality(Names(store, "thumbnails")) = 1
        /\ Cardinality(Names(store, "originalimages")) = 2

Step(i) ==
    \/ Lookup(i) \/ Process(i) \/ Prepare(i)
    \/ UploadOriginal(i) \/ UploadThumbnail(i)

\* C9: an invocation has no response until it is done and then exactly one,
\* with status 200, 400 or 500; every failure of a step ends it with a 500;
\* a body other than the 200 body is one of the three fixed messages; and an
\* invocation that is not done can always take its next step.
C9_AlwaysOneResponse ==
    \A i \in Inv :
        /\ ~Done(i) => (resp[i] = NoResp /\ failedAt[i] = "none")
        /\ (pc[i] # "idle" /\ ~Done(i)) => ENABLED Step(i)
        /\ Done(i) =>
             /\ resp[i].status \in {200, 400, 500}
             /\ resp[i].status # 200 => resp[i].body \in GenericMessages
             /\ failedAt[i] # "none" =>
                  (resp[i].status = 500 /\ resp[i].body \in GenericMessages)
             /\ resp[i].status = 200 => failedAt[i] = "none"

C9_Witness ==
    \E i, j \in Inv :
        /\ Done(i) /\ failedAt[i] = "lookup"
        /\ Done(j) /\ failedAt[j] = "config"

\* C10: a failed attempt ends with an error shown, no uncaught exception and
\* the button available again; there is one POST per button press, sent by
\* the time the attempt leaves the POST, and never a second one.
C10_FailedAttemptRecovers ==
    /\ attempt \in Failures =>
         /\ "error" \in shown
         /\ "spinner" \notin shown
         /\ upc = "ready"
         /\ ufile.decodes
         /\ ~uncaught
    /\ posts = IF upc = "posting" THEN presses - 1 ELSE presses
    /\ uncaught => (upc = "broken" /\ attempt = "none")
    /\ attempt = "ok" => ("thumbnail" \in shown /\ "error" \notin shown)

C10_Witness ==
    /\ attempt = "fetch_not_image"
    /\ presses = 2
    /\ posts = 2
    /\ upc = "ready"

====
